---- MODULE Spec2Model ----
(***************************************************************************)
(* Payment reconciliation of alx_travel_app/listings: the Payment table,   *)
(* the four payment endpoints of views.py, the Chapa gateway client of     *)
(* chapa_service.py, the expiry sweep and the notification tasks of        *)
(* tasks.py.                                                               *)
(*                                                                         *)
(* Every endpoint runs in a request handler (a slot of Handlers).  A        *)
(* handler's steps are its database statements: between two of them any    *)
(* other handler may run (Django autocommit, no select_for_update, no      *)
(* transaction.atomic in the source).  The gateway call has no effect on   *)
(* shared state and is taken together with the assignments that follow it. *)
(***************************************************************************)
EXTENDS Integers, Sequences, FiniteSets, TLC

(* ---------------------------------------------------------------- bounds *)

\* payment rows ever created (uuid4 primary keys 1..MaxPayments)
MaxPayments == 2
\* requests and task runs started in one behaviour
MaxRequests == 3

(* ------------------------------------------------------------- constants *)

\* timedelta(hours=24) of cleanup_expired_payments
StaleHours == 24
\* @shared_task(bind=True, max_retries=3)
max_retries == 3

Handlers == {1, 2}
PaymentIds == 1..MaxPayments
\* the Booking table's primary keys
BookingIds == {1}
\* booking ids a request may carry: the last one is in no Booking row
RequestBookingIds == BookingIds \cup {2}
\* clock values, in hours: the start, and the two sides of the staleness window
TimePoints == {0, StaleHours, StaleHours + 1}

\* a NULL column / None; a present value v is <<v>>
NULL == <<>>
Some(v) == <<v>>

STATUS_CHOICES ==
    {"pending", "processing", "completed", "failed", "cancelled", "refunded"}

\* Payment.save: chapa_reference = "TRV-" + uuid4 hex, drawn once per row
NewReference(id) == <<"TRV", id>>
\* transaction references a verify request or a webhook may carry; the
\* last one belongs to no payment
TxRefs == {NewReference(i) : i \in 0..MaxPayments}

\* Booking.total_amount or Booking.calculate_total_amount()
BookingAmount(b) == 100 * b

\* customer_email, customer_phone and customer_name of the request's data
customer_email == "guest@example.com"
customer_phone == "0911000000"
customer_name == "Guest"

(* ----------------------------------------------------------------- state *)

VARIABLES
    payments,   \* the payments table: primary key -> row
    nextId,     \* primary keys handed out so far, plus one
    now,        \* timezone.now(), in hours
    secretKey,  \* settings.CHAPA_SECRET_KEY is set
    enqueued,   \* enqueued[task][payment id]: messages task.delay(id) has put in
                \* the queue and no worker has taken yet
    started,    \* requests started
    op,         \* op[h]: the endpoint or task handler h is running
    pc,         \* pc[h]: the next step of handler h
    arg,        \* arg[h]: the request's booking id / tx ref / payment id / payload
    obj,        \* obj[h]: the handler's in-memory Payment instance
    result,     \* result[h]: chapa_response, or the sweep's cutoff_time and count
    resp,       \* the response the last step returned (NoResp: it returned none)
    call        \* the gateway call or send_mail the last step made (NoCall: none)

vars == <<payments, nextId, now, secretKey, enqueued, started,
          op, pc, arg, obj, result, resp, call>>

Tasks == {"send_payment_confirmation_email", "send_payment_failure_notification"}

\* a Response: status code, the body's success flag, its error and message
\* fields (NULL when the body has none) and the rest of the body
Response(code, success, error, message, data) ==
    [code |-> code, success |-> success, error |-> error,
     message |-> message, data |-> data]
\* a request: whether its serializer accepts it, and the booking id,
\* transaction reference or payment id it carries
Request(valid, a) == [valid |-> valid, arg |-> a]
NoResp ==
    [op |-> "none", request |-> Request(TRUE, NULL),
     response |-> Response(0, FALSE, NULL, NULL, NULL)]
\* an exchange with the gateway: the endpoint called and what came of it
Call(endpoint, answer) == [endpoint |-> endpoint, answer |-> answer]
NoCall == Call("none", "none")
NoObj == NULL
NoResult == NULL

(* ------------------------------------------------------- the Payment row *)

\* Payment.objects.create(booking=, amount=, currency='ETB', customer_email=,
\* customer_phone=, customer_name=, status='pending')
NewPayment(id, b, t) ==
    [id |-> id, booking |-> b, amount |-> BookingAmount(b), currency |-> "ETB",
     customer_email |-> customer_email, customer_phone |-> customer_phone,
     customer_name |-> customer_name,
     status |-> "pending",
     chapa_transaction_id |-> NULL, chapa_checkout_url |-> NULL,
     chapa_reference |-> NewReference(id),
     payment_method |-> NULL, failure_reason |-> NULL,
     created_at |-> t, paid_at |-> NULL]

\* booking.payment: the rows of the reverse one-to-one relation
PaymentOfBooking(tbl, b) == {p \in DOMAIN tbl : tbl[p].booking = b}

\* Payment.objects.filter(chapa_transaction_id=tx)
ByTransaction(tbl, tx) ==
    {p \in DOMAIN tbl : tbl[p].chapa_transaction_id = Some(tx)}

\* booking declared as a ForeignKey: no unique index on the column
BookingTaken_ForeignKey(tbl, row) == FALSE

\* the unique index of the OneToOneField booking
BookingTaken(tbl, row) ==
    \E q \in DOMAIN tbl : q # row.id /\ tbl[q].booking = row.booking

\* the unique index of chapa_reference
ReferenceTaken(tbl, row) ==
    \E q \in DOMAIN tbl : q # row.id /\ tbl[q].chapa_reference = row.chapa_reference

\* the INSERT of row raises IntegrityError
IntegrityError(tbl, row) == BookingTaken(tbl, row) \/ ReferenceTaken(tbl, row)

\* Model.save() of an instance that was loaded or created before: an UPDATE
\* by primary key and, when that matches no row, an INSERT
SaveRaises(tbl, row) == row.id \notin DOMAIN tbl /\ IntegrityError(tbl, row)

\* Payment.save drawing a new chapa_reference on every save
Saved_NewReferenceEverySave(tbl, row) ==
    [p \in DOMAIN tbl \cup {row.id} |->
        IF p = row.id
        THEN [row EXCEPT !.chapa_reference =
                            <<"TRV", row.chapa_reference[2] + MaxPayments + 1>>]
        ELSE tbl[p]]

\* Payment.save: the reference is drawn only when the instance has none,
\* and every column is written
Saved(tbl, row) ==
    [p \in DOMAIN tbl \cup {row.id} |-> IF p = row.id THEN row ELSE tbl[p]]

\* instance.delete(): DELETE by primary key
Deleted(tbl, id) == [p \in DOMAIN tbl \ {id} |-> tbl[p]]

\* PaymentStatusSerializer(payment).data
StatusView(o) ==
    [id |-> o.id, status |-> o.status, amount |-> o.amount,
     currency |-> o.currency, chapa_reference |-> o.chapa_reference,
     payment_method |-> o.payment_method, paid_at |-> o.paid_at]

(* ------------------------------------------------------------ the gateway *)

\* what a call of transaction/initialize can come to
InitiateAnswers == {"success", "rejected", "request_exception", "invalid_json"}

\* ChapaPaymentService.initiate_payment: the dict it returns.  Chapa hands
\* back the tx_ref of the request, which is the payment's chapa_reference.
ChapaInitiate(answer, reference) ==
    CASE answer = "success" ->
           [success |-> TRUE, checkout_url |-> Some("https://checkout"),
            transaction_id |-> Some(reference), error |-> NULL]
      [] answer = "rejected" ->
           [success |-> FALSE, checkout_url |-> NULL, transaction_id |-> NULL,
            error |-> Some("gateway message")]
      [] answer = "request_exception" ->
           [success |-> FALSE, checkout_url |-> NULL, transaction_id |-> NULL,
            error |-> Some("Payment gateway error")]
      [] OTHER ->
           [success |-> FALSE, checkout_url |-> NULL, transaction_id |-> NULL,
            error |-> Some("Invalid response from payment gateway")]

\* what a call of transaction/verify can come to: the data.status of a
\* success envelope ("none": the field is missing), or a failed call
GatewayStatuses ==
    {"success", "Success", "failed", "cancelled", "pending", "reversed", "none"}
VerifyFailures == {"error_response", "request_exception"}
VerifyAnswers == GatewayStatuses \cup VerifyFailures
\* the data.amount of a success envelope: the payment's amount, or another
GatewayAmounts == {BookingAmount(b) : b \in BookingIds} \cup {1}

\* verify_payment reporting a failed call as a transaction that failed, the
\* way get_payment_status does
ChapaVerify_FailedCallAsFailed(answer, amount) ==
    [success |-> TRUE, amount |-> Some(amount),
     status |-> IF answer = "none" THEN NULL
                ELSE IF answer \in VerifyFailures THEN Some("failed")
                ELSE Some(answer),
     payment_method |-> Some("telebirr"), error |-> NULL]

\* ChapaPaymentService.verify_payment: the dict it returns
ChapaVerify(answer, amount) ==
    IF answer \in VerifyFailures
    THEN [success |-> FALSE, amount |-> NULL, status |-> NULL,
          payment_method |-> NULL, error |-> Some(answer)]
    ELSE [success |-> TRUE, amount |-> Some(amount),
          status |-> IF answer = "none" THEN NULL ELSE Some(answer),
          payment_method |-> Some("telebirr"), error |-> NULL]

\* str.lower() on the gateway's status words
Lower(s) == IF s = "Success" THEN "success" ELSE s

\* verification_result.get('status', '').lower() raises AttributeError: the
\* key is always in the dict, so a missing data.status is None, not ''
StatusRaises(vr) == vr.status = NULL
ChapaStatus(vr) == Lower(vr.status[1])

\* ChapaPaymentService.get_payment_status, for a result whose status is set
status_mapping(s) ==
    CASE s = "success" -> "completed"
      [] s = "pending" -> "pending"
      [] s = "failed" -> "failed"
      [] s = "cancelled" -> "cancelled"
      [] OTHER -> "pending"
get_payment_status(vr) ==
    IF vr.success THEN status_mapping(ChapaStatus(vr)) ELSE "failed"

(* -------------------------------------------------------------- handlers *)

Init ==
    /\ payments = <<>>
    /\ nextId = 1
    /\ now = 0
    /\ secretKey \in BOOLEAN
    /\ enqueued = [t \in Tasks |-> [p \in PaymentIds |-> 0]]
    /\ started = 0
    /\ op = [h \in Handlers |-> "none"]
    /\ pc = [h \in Handlers |-> "idle"]
    /\ arg = [h \in Handlers |-> NULL]
    /\ obj = [h \in Handlers |-> NoObj]
    /\ result = [h \in Handlers |-> NoResult]
    /\ resp = NoResp
    /\ call = NoCall

\* an idle handler takes a request; the handlers being alike, of several
\* idle ones the first takes it
Idle(h) ==
    /\ pc[h] = "idle"
    /\ \A other \in Handlers : pc[other] = "idle" => h <= other
    /\ started < MaxRequests
    /\ started' = started + 1

\* the handler goes on to its next database statement
Goto(h, name, label, a, o, r) ==
    /\ op' = [op EXCEPT ![h] = name]
    /\ pc' = [pc EXCEPT ![h] = label]
    /\ arg' = [arg EXCEPT ![h] = a]
    /\ obj' = [obj EXCEPT ![h] = o]
    /\ result' = [result EXCEPT ![h] = r]
    /\ resp' = NoResp

\* the handler returns response r to request req of endpoint name
Return(h, name, req, r) ==
    /\ op' = [op EXCEPT ![h] = "none"]
    /\ pc' = [pc EXCEPT ![h] = "idle"]
    /\ arg' = [arg EXCEPT ![h] = NULL]
    /\ obj' = [obj EXCEPT ![h] = NoObj]
    /\ result' = [result EXCEPT ![h] = NoResult]
    /\ resp' = [op |-> name, request |-> req, response |-> r]

\* task.delay(payment id) on the in-memory instance o
Delay(task, o) ==
    enqueued' = [enqueued EXCEPT ![task][o.id] = @ + 1]

InternalServerError ==
    Response(500, FALSE, Some("Internal server error"), NULL, NULL)

(* ---- initiate_payment ---- *)

\* the check of views.py:66 with 'processing' left out
BlocksInitiate_CompletedOnly(status) == status = "completed"

\* views.py:66: the statuses of an existing payment that reject an initiate
BlocksInitiate(status) == status \in {"completed", "processing"}

\* initiates that still have a primary key to draw
Drawing == {h \in Handlers : op[h] = "initiate_payment" /\ pc[h] \in {"delete", "create"}}

\* the request is validated, the booking and its payment are looked up
initiate_payment(h, valid, b) ==
    /\ Idle(h)
    /\ call' = NoCall
    /\ nextId + Cardinality(Drawing) <= MaxPayments
    /\ UNCHANGED <<payments, nextId, now, secretKey, enqueued>>
    /\ IF ~valid
       THEN Return(h, "initiate_payment", Request(valid, Some(b)), Response(400, FALSE, Some("Invalid payment data"), NULL, NULL))
       ELSE IF b \notin BookingIds
       \* get_object_or_404 raises Http404 inside the try block
       THEN Return(h, "initiate_payment", Request(valid, Some(b)), InternalServerError)
       ELSE IF PaymentOfBooking(payments, b) = {}
       THEN Goto(h, "initiate_payment", "create", Some(b), NoObj, NoResult)
       ELSE LET existing == payments[CHOOSE p \in PaymentOfBooking(payments, b) : TRUE] IN
            IF BlocksInitiate(existing.status)
            THEN Return(h, "initiate_payment", Request(valid, Some(b)), Response(400, FALSE,
                           Some("Payment already exists for this booking"), NULL,
                           [payment_status |-> existing.status]))
            ELSE Goto(h, "initiate_payment", "delete", Some(b), existing, NoResult)

\* booking.payment.delete()
initiate_payment_delete(h) ==
    /\ op[h] = "initiate_payment" /\ pc[h] = "delete"
    /\ call' = NoCall
    /\ payments' = Deleted(payments, obj[h].id)
    /\ Goto(h, "initiate_payment", "create", arg[h], NoObj, NoResult)
    /\ UNCHANGED <<nextId, now, secretKey, enqueued, started>>

\* Payment.objects.create(...)
initiate_payment_create(h) ==
    /\ op[h] = "initiate_payment" /\ pc[h] = "create"
    /\ call' = NoCall
    /\ nextId <= MaxPayments
    /\ LET payment == NewPayment(nextId, arg[h][1], now) IN
       IF IntegrityError(payments, payment)
          THEN /\ Return(h, "initiate_payment", Request(TRUE, arg[h]), InternalServerError)
               /\ UNCHANGED <<payments, nextId>>
          ELSE /\ payments' = Saved(payments, payment)
               /\ nextId' = nextId + 1
               /\ Goto(h, "initiate_payment", "gateway", arg[h], payment, NoResult)
    /\ UNCHANGED <<now, secretKey, enqueued, started>>

\* views.py:107-112 and 128-130: the instance after chapa_response
InitiateApply(o, chapa_response) ==
    IF chapa_response.success
    THEN [o EXCEPT !.chapa_checkout_url = chapa_response.checkout_url,
                   !.chapa_transaction_id = chapa_response.transaction_id,
                   !.status = "processing"]
    ELSE [o EXCEPT !.status = "failed",
                   !.failure_reason = chapa_response.error]

\* get_chapa_service() and chapa_service.initiate_payment(payment_data)
initiate_payment_gateway(h, answer) ==
    /\ op[h] = "initiate_payment" /\ pc[h] = "gateway"
    /\ call' = IF secretKey THEN Call("transaction/initialize", answer) ELSE NoCall
    /\ UNCHANGED <<payments, nextId, now, secretKey, enqueued, started>>
    /\ IF ~secretKey
       \* ChapaPaymentService.__init__ raises ValueError
       THEN Return(h, "initiate_payment", Request(TRUE, arg[h]), InternalServerError)
       ELSE LET chapa_response == ChapaInitiate(answer, obj[h].chapa_reference) IN
            Goto(h, "initiate_payment", "save", arg[h], InitiateApply(obj[h], chapa_response), chapa_response)

\* views.py:116-124 and 134-138
InitiateResponse(o, chapa_response) ==
    IF chapa_response.success
    THEN Response(201, TRUE, NULL, Some("Payment initiated successfully"),
                  [payment_id |-> o.id,
                   checkout_url |-> chapa_response.checkout_url,
                   reference |-> o.chapa_reference,
                   amount |-> o.amount, currency |-> "ETB"])
    ELSE Response(400, FALSE, Some("Payment initiation failed"), NULL,
                  [details |-> chapa_response.error])

\* payment.save() and the response
initiate_payment_save(h) ==
    /\ op[h] = "initiate_payment" /\ pc[h] = "save"
    /\ call' = NoCall
    /\ UNCHANGED <<nextId, now, secretKey, enqueued, started>>
    /\ IF SaveRaises(payments, obj[h])
       THEN /\ Return(h, "initiate_payment", Request(TRUE, arg[h]), InternalServerError)
            /\ UNCHANGED payments
       ELSE /\ payments' = Saved(payments, obj[h])
            /\ Return(h, "initiate_payment", Request(TRUE, arg[h]), InitiateResponse(obj[h], result[h]))

(* ---- verify_payment ---- *)

\* the amount taken over from the gateway's data along with the status
VerifyApply_TakesGatewayAmount(o, vr, t) ==
    IF ChapaStatus(vr) = "success"
    THEN [o EXCEPT !.status = "completed", !.paid_at = Some(t),
                   !.payment_method = vr.payment_method,
                   !.amount = vr.amount[1]]
    ELSE IF ChapaStatus(vr) \in {"failed", "cancelled"}
    THEN [o EXCEPT !.status = "failed",
                   !.failure_reason = Some(<<"Chapa status", ChapaStatus(vr)>>)]
    ELSE [o EXCEPT !.status = "pending"]

\* views.py:181-204: the instance after a successful verification_result
VerifyApply(o, vr, t) ==
    IF ChapaStatus(vr) = "success"
    THEN [o EXCEPT !.status = "completed", !.paid_at = Some(t),
                   !.payment_method = vr.payment_method]
    ELSE IF ChapaStatus(vr) \in {"failed", "cancelled"}
    THEN [o EXCEPT !.status = "failed",
                   !.failure_reason = Some(<<"Chapa status", ChapaStatus(vr)>>)]
    ELSE [o EXCEPT !.status = "pending"]

\* views.py:189 and 198, 316 and 323: the task whose delay() is called
TaskFor(vr) ==
    IF ChapaStatus(vr) = "success" THEN Some("send_payment_confirmation_email")
    ELSE IF ChapaStatus(vr) \in {"failed", "cancelled"}
    THEN Some("send_payment_failure_notification")
    ELSE NULL

\* the request is validated and the payment looked up by transaction id
verify_payment(h, valid, tx) ==
    /\ Idle(h)
    /\ call' = NoCall
    /\ UNCHANGED <<payments, nextId, now, secretKey, enqueued>>
    /\ IF ~valid
       THEN Return(h, "verify_payment", Request(valid, Some(tx)), Response(400, FALSE, Some("Invalid verification data"), NULL, NULL))
       ELSE IF Cardinality(ByTransaction(payments, tx)) # 1
       \* get_object_or_404 raises Http404 (or MultipleObjectsReturned), which
       \* is no Payment.DoesNotExist
       THEN Return(h, "verify_payment", Request(valid, Some(tx)), InternalServerError)
       ELSE Goto(h, "verify_payment", "gateway", Some(tx),
                 payments[CHOOSE p \in ByTransaction(payments, tx) : TRUE], NoResult)

\* get_chapa_service(), chapa_service.verify_payment(transaction_id), the
\* assignments to the instance and the task's delay()
verify_payment_gateway(h, answer, paid, broker) ==
    /\ op[h] = "verify_payment" /\ pc[h] = "gateway"
    /\ call' = IF secretKey THEN Call("transaction/verify", answer) ELSE NoCall
    /\ UNCHANGED <<payments, nextId, now, secretKey, started>>
    /\ LET vr == ChapaVerify(answer, paid) IN
       IF ~secretKey
       THEN Return(h, "verify_payment", Request(TRUE, arg[h]), InternalServerError) /\ UNCHANGED enqueued
       ELSE IF ~vr.success
       THEN /\ Return(h, "verify_payment", Request(TRUE, arg[h]), Response(400, FALSE, Some("Payment verification failed"),
                                  NULL, [details |-> vr.error]))
            /\ UNCHANGED enqueued
       ELSE IF StatusRaises(vr)
       THEN Return(h, "verify_payment", Request(TRUE, arg[h]), InternalServerError) /\ UNCHANGED enqueued
       ELSE IF TaskFor(vr) = NULL
       THEN Goto(h, "verify_payment", "save", arg[h], VerifyApply(obj[h], vr, now), NoResult) /\ UNCHANGED enqueued
       ELSE IF ~broker
       \* delay() raises: the broker cannot be reached
       THEN Return(h, "verify_payment", Request(TRUE, arg[h]), InternalServerError) /\ UNCHANGED enqueued
       ELSE /\ Delay(TaskFor(vr)[1], obj[h])
            /\ Goto(h, "verify_payment", "save", arg[h], VerifyApply(obj[h], vr, now), NoResult)

\* payment.save() and the response
verify_payment_save(h) ==
    /\ op[h] = "verify_payment" /\ pc[h] = "save"
    /\ call' = NoCall
    /\ UNCHANGED <<nextId, now, secretKey, enqueued, started>>
    /\ IF SaveRaises(payments, obj[h])
       THEN /\ Return(h, "verify_payment", Request(TRUE, arg[h]), InternalServerError)
            /\ UNCHANGED payments
       ELSE /\ payments' = Saved(payments, obj[h])
            /\ Return(h, "verify_payment", Request(TRUE, arg[h]), Response(200, TRUE, NULL, Some("Payment verification completed"),
                                  StatusView(obj[h])))

(* ---- payment_status ---- *)

PaymentNotFound == Response(404, FALSE, Some("Payment not found"), NULL, NULL)

\* views.py:251: the payment is checked against the gateway
Rechecked(o) ==
    o.status \in {"pending", "processing"} /\ o.chapa_transaction_id # NULL

\* views.py:255-259: the instance after get_payment_status
StatusApply(o, current_status, t) ==
    IF current_status # o.status
    THEN [o EXCEPT !.status = current_status,
                   !.paid_at = IF current_status = "completed" THEN Some(t) ELSE @]
    ELSE o

\* the payment is looked up by primary key
payment_status(h, id) ==
    /\ Idle(h)
    /\ call' = NoCall
    /\ UNCHANGED <<payments, nextId, now, secretKey, enqueued>>
    /\ IF id \notin DOMAIN payments
       THEN Return(h, "payment_status", Request(TRUE, Some(id)), PaymentNotFound)
       ELSE IF Rechecked(payments[id])
       THEN Goto(h, "payment_status", "recheck", Some(id), payments[id], NoResult)
       ELSE Return(h, "payment_status", Request(TRUE, Some(id)), Response(200, TRUE, NULL, NULL, StatusView(payments[id])))

\* get_chapa_service(), get_payment_status(), payment.save() and the response
payment_status_recheck(h, answer, paid) ==
    /\ op[h] = "payment_status" /\ pc[h] = "recheck"
    /\ call' = IF secretKey THEN Call("transaction/verify", answer) ELSE NoCall
    /\ UNCHANGED <<nextId, now, secretKey, enqueued, started>>
    /\ LET vr == ChapaVerify(answer, paid) IN
       IF ~secretKey \/ (vr.success /\ StatusRaises(vr))
       THEN Return(h, "payment_status", Request(TRUE, arg[h]), PaymentNotFound) /\ UNCHANGED payments
       ELSE LET payment == StatusApply(obj[h], get_payment_status(vr), now) IN
            IF payment = obj[h]
            THEN /\ Return(h, "payment_status", Request(TRUE, arg[h]), Response(200, TRUE, NULL, NULL, StatusView(payment)))
                 /\ UNCHANGED payments
            ELSE IF SaveRaises(payments, payment)
            THEN Return(h, "payment_status", Request(TRUE, arg[h]), PaymentNotFound) /\ UNCHANGED payments
            ELSE /\ payments' = Saved(payments, payment)
                 /\ Return(h, "payment_status", Request(TRUE, arg[h]), Response(200, TRUE, NULL, NULL, StatusView(payment)))

(* ---- payment_webhook ---- *)

\* request.data of a webhook: the tx_ref (NULL: the payload has none) and the
\* status Chapa's notification carries
PayloadStatuses == {"success", "failed"}
Payloads ==
    [tx_ref : {NULL} \cup {Some(tx) : tx \in TxRefs}, status : PayloadStatuses]

\* the webhook taking the payload's word for the transaction's status
WebhookApply_TrustsPayload(o, data, vr, t) ==
    IF data.status = "success"
    THEN [o EXCEPT !.status = "completed", !.paid_at = Some(t),
                   !.payment_method = vr.payment_method]
    ELSE [o EXCEPT !.status = "failed",
                   !.failure_reason = Some(<<"Webhook status", data.status>>)]

\* views.py:310-326: the instance after a successful verification_result;
\* data is in scope and is not read
WebhookApply(o, data, vr, t) ==
    IF ChapaStatus(vr) = "success"
    THEN [o EXCEPT !.status = "completed", !.paid_at = Some(t),
                   !.payment_method = vr.payment_method]
    ELSE IF ChapaStatus(vr) \in {"failed", "cancelled"}
    THEN [o EXCEPT !.status = "failed",
                   !.failure_reason = Some(<<"Webhook status", ChapaStatus(vr)>>)]
    ELSE o

\* the lookup made on chapa_reference instead of chapa_transaction_id
First_ByReference(tbl, tx) == {p \in DOMAIN tbl : tbl[p].chapa_reference = tx}

\* Payment.objects.filter(chapa_transaction_id=tx).first(), under the
\* model's ordering ['-created_at']
First(tbl, tx) ==
    {p \in ByTransaction(tbl, tx) :
        \A q \in ByTransaction(tbl, tx) : tbl[q].created_at <= tbl[p].created_at}

\* the payload's tx_ref is read and the payment looked up
payment_webhook(h, data) ==
    /\ Idle(h)
    /\ call' = NoCall
    /\ UNCHANGED <<payments, nextId, now, secretKey, enqueued>>
    /\ IF data.tx_ref = NULL
       THEN Return(h, "payment_webhook", Request(TRUE, data),
                   Response(400, FALSE, Some("Missing transaction reference"), NULL, NULL))
       ELSE IF First(payments, data.tx_ref[1]) = {}
       THEN Return(h, "payment_webhook", Request(TRUE, data), PaymentNotFound)
       ELSE \E p \in First(payments, data.tx_ref[1]) :
               Goto(h, "payment_webhook", "gateway", data, payments[p], NoResult)

WebhookProcessingFailed ==
    Response(500, FALSE, Some("Webhook processing failed"), NULL, NULL)

\* get_chapa_service(), chapa_service.verify_payment(transaction_id), the
\* assignments to the instance and the task's delay()
payment_webhook_gateway(h, answer, paid, broker) ==
    /\ op[h] = "payment_webhook" /\ pc[h] = "gateway"
    /\ call' = IF secretKey THEN Call("transaction/verify", answer) ELSE NoCall
    /\ UNCHANGED <<payments, nextId, now, secretKey, started>>
    /\ LET vr == ChapaVerify(answer, paid) IN
       IF ~secretKey
       THEN Return(h, "payment_webhook", Request(TRUE, arg[h]), WebhookProcessingFailed) /\ UNCHANGED enqueued
       ELSE IF ~vr.success
       THEN /\ Return(h, "payment_webhook", Request(TRUE, arg[h]), Response(400, FALSE, Some("Webhook verification failed"),
                                  NULL, NULL))
            /\ UNCHANGED enqueued
       ELSE IF StatusRaises(vr)
       THEN Return(h, "payment_webhook", Request(TRUE, arg[h]), WebhookProcessingFailed) /\ UNCHANGED enqueued
       ELSE IF TaskFor(vr) = NULL
       THEN Goto(h, "payment_webhook", "save", arg[h], WebhookApply(obj[h], arg[h], vr, now), NoResult) /\ UNCHANGED enqueued
       ELSE IF ~broker
       THEN Return(h, "payment_webhook", Request(TRUE, arg[h]), WebhookProcessingFailed) /\ UNCHANGED enqueued
       ELSE /\ Delay(TaskFor(vr)[1], obj[h])
            /\ Goto(h, "payment_webhook", "save", arg[h], WebhookApply(obj[h], arg[h], vr, now), NoResult)

\* payment.save() and the response
payment_webhook_save(h) ==
    /\ op[h] = "payment_webhook" /\ pc[h] = "save"
    /\ call' = NoCall
    /\ UNCHANGED <<nextId, now, secretKey, enqueued, started>>
    /\ IF SaveRaises(payments, obj[h])
       THEN /\ Return(h, "payment_webhook", Request(TRUE, arg[h]), WebhookProcessingFailed)
            /\ UNCHANGED payments
       ELSE /\ payments' = Saved(payments, obj[h])
            /\ Return(h, "payment_webhook", Request(TRUE, arg[h]), Response(200, TRUE, NULL,
                                  Some("Webhook processed successfully"), NULL))

(* ---- cleanup_expired_payments ---- *)

\* the filter written with created_at__lte
Expired_Inclusive(tbl, cutoff_time) ==
    {p \in DOMAIN tbl : tbl[p].status = "pending" /\ tbl[p].created_at <= cutoff_time}

\* Payment.objects.filter(status='pending', created_at__lt=cutoff_time)
Expired(tbl, cutoff_time) ==
    {p \in DOMAIN tbl : tbl[p].status = "pending" /\ tbl[p].created_at < cutoff_time}

\* expired_payments.update(status='cancelled', failure_reason=...)
Update(tbl, cutoff_time) ==
    [p \in DOMAIN tbl |->
        IF p \in Expired(tbl, cutoff_time)
        THEN [tbl[p] EXCEPT !.status = "cancelled",
                            !.failure_reason = Some("Payment expired after 24 hours")]
        ELSE tbl[p]]

\* the task's result {'status': 'success', 'cleaned_up': count}
CleanedUp(count) == Response(0, TRUE, NULL, NULL, [cleaned_up |-> count])

\* cutoff_time and expired_payments.count()
cleanup_expired_payments(h) ==
    /\ Idle(h)
    /\ call' = NoCall
    /\ UNCHANGED <<payments, nextId, now, secretKey, enqueued>>
    /\ LET cutoff_time == now - StaleHours
           count == Cardinality(Expired(payments, cutoff_time)) IN
       IF count > 0
       THEN Goto(h, "cleanup_expired_payments", "update", NULL, NoObj, [cutoff_time |-> cutoff_time, count |-> count])
       ELSE Return(h, "cleanup_expired_payments", Request(TRUE, NULL), CleanedUp(count))

\* expired_payments.update(...): the queryset is evaluated again
cleanup_expired_payments_update(h) ==
    /\ op[h] = "cleanup_expired_payments" /\ pc[h] = "update"
    /\ call' = NoCall
    /\ payments' = Update(payments, result[h].cutoff_time)
    /\ Return(h, "cleanup_expired_payments", Request(TRUE, arg[h]), CleanedUp(result[h].count))
    /\ UNCHANGED <<nextId, now, secretKey, enqueued, started>>

(* ---- the clock ---- *)

\* The clock's points are hours apart and a request lasts seconds (the
\* gateway call times out after 30 s): the clock moves between requests.
Tick ==
    /\ \A h \in Handlers : pc[h] = "idle"
    /\ \E t \in TimePoints : t > now /\ now' = t
    /\ resp' = NoResp
    /\ call' = NoCall
    /\ UNCHANGED <<payments, nextId, secretKey, enqueued, started,
                   op, pc, arg, obj, result>>

(* ------------------------------------------------------ the specification *)

Next ==
    \/ \E h \in Handlers, valid \in BOOLEAN, b \in RequestBookingIds :
          initiate_payment(h, valid, b)
    \/ \E h \in Handlers : initiate_payment_delete(h)
    \/ \E h \in Handlers : initiate_payment_create(h)
    \/ \E h \in Handlers, answer \in InitiateAnswers : initiate_payment_gateway(h, answer)
    \/ \E h \in Handlers : initiate_payment_save(h)
    \/ \E h \in Handlers, valid \in BOOLEAN, tx \in TxRefs : verify_payment(h, valid, tx)
    \/ \E h \in Handlers, answer \in VerifyAnswers, paid \in GatewayAmounts,
          broker \in BOOLEAN :
          verify_payment_gateway(h, answer, paid, broker)
    \/ \E h \in Handlers : verify_payment_save(h)
    \/ \E h \in Handlers, id \in PaymentIds : payment_status(h, id)
    \/ \E h \in Handlers, answer \in VerifyAnswers, paid \in GatewayAmounts :
          payment_status_recheck(h, answer, paid)
    \/ \E h \in Handlers, data \in Payloads : payment_webhook(h, data)
    \/ \E h \in Handlers, answer \in VerifyAnswers, paid \in GatewayAmounts,
          broker \in BOOLEAN :
          payment_webhook_gateway(h, answer, paid, broker)
    \/ \E h \in Handlers : payment_webhook_save(h)
    \/ \E h \in Handlers : cleanup_expired_payments(h)
    \/ \E h \in Handlers : cleanup_expired_payments_update(h)
    \/ Tick

Spec == Init /\ [][Next]_vars

(* --------------------------------------------------- the notification tasks *)

\* A worker (a slot of Handlers) runs a task message through its attempts:
\* arg[h] holds the message's argument and self.request.retries, result[h]
\* the countdowns of the retries scheduled so far, in seconds.

Message(id) == [id |-> id, retries |-> 0]

\* the dict a task returns: its 'status' and, when it has one, its 'message'
TaskResult(status, message) ==
    Response(0, status # "error", NULL, message, [status |-> status])

\* self.retry(countdown=2 ** self.request.retries): the message comes back
\* with retries raised by one
Retry(h, name) ==
    /\ op' = op /\ pc' = pc /\ obj' = obj
    /\ arg' = [arg EXCEPT ![h].retries = @ + 1]
    /\ result' = [result EXCEPT ![h] = Append(@, 2 ^ arg[h].retries)]
    /\ resp' = NoResp

\* the retry test written with <=: one retry more
DeliveryFailed_OneMore(h, name) ==
    IF arg[h].retries <= max_retries
    THEN Retry(h, name)
    ELSE Return(h, name, Request(TRUE, arg[h]), TaskResult("error", Some("send_mail")))

\* tasks.py:90-99 and 170-179: send_mail raised
DeliveryFailed(h, name) ==
    IF arg[h].retries < max_retries
    THEN Retry(h, name)
    ELSE Return(h, name, Request(TRUE, arg[h]), TaskResult("error", Some("send_mail")))

\* send_mail(..., fail_silently=False): the mail is sent or an exception raised
SendMail(delivered) == Call("send_mail", IF delivered THEN "sent" ELSE "raised")

\* a worker receives send_payment_confirmation_email(payment_id)
send_payment_confirmation_email(h, payment_id) ==
    /\ Idle(h)
    /\ call' = NoCall
    /\ Goto(h, "send_payment_confirmation_email", "run", Message(payment_id), NoObj, <<>>)
    /\ UNCHANGED <<payments, nextId, now, secretKey, enqueued>>

\* one attempt of send_payment_confirmation_email
send_payment_confirmation_email_run(h, delivered) ==
    /\ op[h] = "send_payment_confirmation_email" /\ pc[h] = "run"
    /\ call' = IF arg[h].id \in DOMAIN payments THEN SendMail(delivered) ELSE NoCall
    /\ UNCHANGED <<payments, nextId, now, secretKey, enqueued, started>>
    /\ IF arg[h].id \notin DOMAIN payments
       THEN Return(h, op[h], Request(TRUE, arg[h]),
                   TaskResult("error", Some("Payment not found")))
       ELSE IF delivered
       THEN Return(h, op[h], Request(TRUE, arg[h]), TaskResult("success", NULL))
       ELSE DeliveryFailed(h, op[h])

\* the reminder skipped only for a booking that has no payment
SkipsReminder_NoPaymentOnly(tbl, b) == PaymentOfBooking(tbl, b) = {}

\* tasks.py:115: the booking has no payment, or one that is not completed
SkipsReminder(tbl, b) ==
    \A p \in PaymentOfBooking(tbl, b) : tbl[p].status # "completed"

\* a worker receives send_booking_reminder_email(booking_id)
send_booking_reminder_email(h, booking_id) ==
    /\ Idle(h)
    /\ call' = NoCall
    /\ Goto(h, "send_booking_reminder_email", "run", Message(booking_id), NoObj, <<>>)
    /\ UNCHANGED <<payments, nextId, now, secretKey, enqueued>>

\* one attempt of send_booking_reminder_email
send_booking_reminder_email_run(h, delivered) ==
    /\ op[h] = "send_booking_reminder_email" /\ pc[h] = "run"
    /\ call' = IF arg[h].id \in BookingIds /\ ~SkipsReminder(payments, arg[h].id)
               THEN SendMail(delivered) ELSE NoCall
    /\ UNCHANGED <<payments, nextId, now, secretKey, enqueued, started>>
    /\ IF arg[h].id \notin BookingIds
       THEN Return(h, op[h], Request(TRUE, arg[h]),
                   TaskResult("error", Some("Booking not found")))
       ELSE IF SkipsReminder(payments, arg[h].id)
       THEN Return(h, op[h], Request(TRUE, arg[h]),
                   TaskResult("skipped", Some("No completed payment found")))
       ELSE IF delivered
       THEN Return(h, op[h], Request(TRUE, arg[h]), TaskResult("success", NULL))
       ELSE DeliveryFailed(h, op[h])

\* a worker receives send_payment_failure_notification(payment_id, reason)
send_payment_failure_notification(h, payment_id) ==
    /\ Idle(h)
    /\ call' = NoCall
    /\ Goto(h, "send_payment_failure_notification", "run", Message(payment_id), NoObj, <<>>)
    /\ UNCHANGED <<payments, nextId, now, secretKey, enqueued>>

\* the one attempt of send_payment_failure_notification: every exception
\* ends the task
send_payment_failure_notification_run(h, delivered) ==
    /\ op[h] = "send_payment_failure_notification" /\ pc[h] = "run"
    /\ call' = IF arg[h].id \in DOMAIN payments THEN SendMail(delivered) ELSE NoCall
    /\ UNCHANGED <<payments, nextId, now, secretKey, enqueued, started>>
    /\ IF arg[h].id \in DOMAIN payments /\ delivered
       THEN Return(h, op[h], Request(TRUE, arg[h]), TaskResult("success", NULL))
       ELSE Return(h, op[h], Request(TRUE, arg[h]),
                   TaskResult("error", Some("exception")))

\* the statuses the endpoints and the sweep store in a row the gateway has
\* accepted (no statement of the source writes 'refunded')
StoredStatuses == STATUS_CHOICES \ {"refunded"}

\* a payment row as the endpoints and the sweep leave it once the gateway
\* has accepted it
StoredPayment(status) ==
    [NewPayment(1, 1, 0) EXCEPT
        !.status = status,
        !.chapa_transaction_id = Some(NewReference(1)),
        !.chapa_checkout_url = Some("https://checkout"),
        !.payment_method = IF status = "completed" THEN Some("telebirr") ELSE NULL,
        !.failure_reason =
            IF status = "failed" THEN Some(<<"Chapa status", "failed">>)
            ELSE IF status = "cancelled" THEN Some("Payment expired after 24 hours")
            ELSE NULL,
        !.paid_at = IF status = "completed" THEN Some(0) ELSE NULL]

\* the workers start on a store that is empty or holds one payment
DispatchInit ==
    /\ payments \in {<<>>} \cup
                    {Saved(<<>>, StoredPayment(status)) : status \in StoredStatuses}
    /\ nextId = Cardinality(DOMAIN payments) + 1
    /\ now = 0
    /\ secretKey = TRUE
    /\ enqueued = [t \in Tasks |-> [p \in PaymentIds |-> 0]]
    /\ started = 0
    /\ op = [h \in Handlers |-> "none"]
    /\ pc = [h \in Handlers |-> "idle"]
    /\ arg = [h \in Handlers |-> NULL]
    /\ obj = [h \in Handlers |-> NoObj]
    /\ result = [h \in Handlers |-> NoResult]
    /\ resp = NoResp
    /\ call = NoCall

DispatchNext ==
    \/ \E h \in Handlers, payment_id \in PaymentIds :
          send_payment_confirmation_email(h, payment_id)
    \/ \E h \in Handlers, delivered \in BOOLEAN :
          send_payment_confirmation_email_run(h, delivered)
    \/ \E h \in Handlers, booking_id \in RequestBookingIds :
          send_booking_reminder_email(h, booking_id)
    \/ \E h \in Handlers, delivered \in BOOLEAN :
          send_booking_reminder_email_run(h, delivered)
    \/ \E h \in Handlers, payment_id \in PaymentIds :
          send_payment_failure_notification(h, payment_id)
    \/ \E h \in Handlers, delivered \in BOOLEAN :
          send_payment_failure_notification_run(h, delivered)

\* a worker that holds a message runs its next attempt
Attempt(h) ==
    \E delivered \in BOOLEAN :
        \/ send_payment_confirmation_email_run(h, delivered)
        \/ send_booking_reminder_email_run(h, delivered)
        \/ send_payment_failure_notification_run(h, delivered)

DispatchSpec ==
    /\ DispatchInit
    /\ [][DispatchNext]_vars
    /\ \A h \in Handlers : WF_vars(Attempt(h))

(* ------------------------------------------- the endpoints and the workers *)

\* The endpoints and the sweep together with the workers of the two tasks
\* the endpoints enqueue: a worker takes a message only after delay() has
\* put it in the queue, and runs it while request handlers go on.

\* @shared_task: a worker takes the message of task.delay(payment_id) from
\* the queue and calls the task function
shared_task(h, task, payment_id) ==
    /\ Idle(h)
    /\ enqueued[task][payment_id] > 0
    /\ enqueued' = [enqueued EXCEPT ![task][payment_id] = @ - 1]
    /\ call' = NoCall
    /\ Goto(h, task, "run", Message(payment_id), NoObj, <<>>)
    /\ UNCHANGED <<payments, nextId, now, secretKey>>

DeliveryNext ==
    \/ Next
    \/ \E h \in Handlers, task \in Tasks, payment_id \in PaymentIds :
          shared_task(h, task, payment_id)
    \/ \E h \in Handlers, delivered \in BOOLEAN :
          send_payment_confirmation_email_run(h, delivered)
    \/ \E h \in Handlers, delivered \in BOOLEAN :
          send_payment_failure_notification_run(h, delivered)

DeliverySpec == Init /\ [][DeliveryNext]_vars

(* ---------------------------------------------------------------- claims *)

Terminal == {"completed", "cancelled", "refunded"}
Confirmations(p) == enqueued["send_payment_confirmation_email"][p]
Reconciling == {"verify_payment", "payment_webhook"}
\* handler h takes a step of its own
Steps(h) == pc'[h] # pc[h]
\* handler h holds a completion of payment p that it has not saved yet
Completing(h, p) ==
    /\ op[h] \in Reconciling /\ pc[h] = "save"
    /\ obj[h].id = p /\ obj[h].status = "completed"
\* the step called transaction/verify and the gateway reported success
ReportedSuccess ==
    call'.endpoint = "transaction/verify" /\ Lower(call'.answer) = "success"

\* C1: when a verify and a webhook (or two of a kind) run concurrently on one
\* payment and the gateway reports success to both, the second of them
\* enqueues nothing: the confirmation is enqueued once in total.
C1_ConcurrentCompletionEnqueuesOnce ==
    [][\A h \in Handlers :
          (/\ op[h] \in Reconciling /\ pc[h] = "gateway" /\ Steps(h)
           /\ ReportedSuccess
           /\ \E other \in Handlers \ {h} : Completing(other, obj[h].id)
           /\ Confirmations(obj[h].id) >= 1)
          => enqueued' = enqueued]_vars

\* C2: a verify of a payment that is already completed and has its
\* confirmation enqueued, the gateway still reporting success, keeps the
\* status and paid_at it found and enqueues no further confirmation.
C2_VerifyCompletedIdempotent ==
    [][\A h \in Handlers :
          (/\ op[h] = "verify_payment" /\ pc[h] = "gateway" /\ pc'[h] = "save"
           /\ obj[h].status = "completed"
           /\ Confirmations(obj[h].id) >= 1
           /\ ReportedSuccess)
          => /\ obj'[h].status = "completed"
             /\ obj'[h].paid_at = obj[h].paid_at
             /\ enqueued' = enqueued]_vars

\* C3: a payment whose status is completed, cancelled or refunded keeps that
\* status in every step that keeps the row.
C3_TerminalStatusFinal ==
    [][\A p \in DOMAIN payments :
          (payments[p].status \in Terminal /\ p \in DOMAIN payments')
          => payments'[p].status = payments[p].status]_vars

\* C4: in every state, a payment row has paid_at set if and only if its
\* status is completed.
C4_PaidAtIffCompleted ==
    \A p \in DOMAIN payments :
        (payments[p].paid_at # NULL) <=> (payments[p].status = "completed")

\* C5: in every state each booking has at most one payment row, and so at
\* most one whose status is processing or completed.
C5_OnePaymentPerBooking ==
    \A b \in BookingIds :
        /\ Cardinality(PaymentOfBooking(payments, b)) <= 1
        /\ Cardinality({p \in PaymentOfBooking(payments, b) :
                           payments[p].status \in {"processing", "completed"}}) <= 1

\* an initiate is creating a row for a booking that already has one
C5_Witness ==
    \E h \in Handlers :
        /\ op[h] = "initiate_payment" /\ pc[h] = "create"
        /\ PaymentOfBooking(payments, arg[h][1]) # {}

\* the step takes a valid initiate request for booking b
InitiateStarted(b) ==
    /\ started' = started + 1
    /\ \/ resp'.op = "initiate_payment" /\ resp'.request = Request(TRUE, Some(b))
       \/ \E h \in Handlers :
             pc[h] = "idle" /\ op'[h] = "initiate_payment" /\ arg'[h] = Some(b)

\* C6: an initiate for a booking whose payment is processing or completed
\* returns the conflict response (400); it creates and changes no row, and
\* the handler ends there, without a gateway call.
C6_BlockedInitiateRejected ==
    [][\A b \in BookingIds :
          (/\ InitiateStarted(b)
           /\ \E p \in PaymentOfBooking(payments, b) :
                 payments[p].status \in {"processing", "completed"})
          => /\ resp'.op = "initiate_payment"
             /\ resp'.response.code = 400
             /\ resp'.response.error = Some("Payment already exists for this booking")
             /\ payments' = payments
             /\ nextId' = nextId
             /\ pc' = pc
             /\ call' = NoCall]_vars

\* an initiate was rejected because of a processing payment
C6_Witness ==
    /\ resp.op = "initiate_payment"
    /\ resp.response.error = Some("Payment already exists for this booking")
    /\ resp.response.data.payment_status = "processing"

\* C7: the row an initiate deletes has status failed or cancelled.
C7_InitiateDeletesOnlyFailedOrCancelled ==
    [][\A h \in Handlers :
          (op[h] = "initiate_payment" /\ pc[h] = "delete" /\ Steps(h))
          => \A p \in DOMAIN payments \ DOMAIN payments' :
                payments[p].status \in {"failed", "cancelled"}]_vars

\* C8: an initiate whose gateway call succeeded ends with its payment stored
\* as processing, with the checkout URL and transaction id of the gateway,
\* and returns 201 with that checkout URL and the payment's reference.
C8_AcceptedInitiateProcessing ==
    [][\A h \in Handlers :
          (/\ op[h] = "initiate_payment" /\ pc[h] = "save" /\ Steps(h)
           /\ result[h].success)
          => /\ obj[h].id \in DOMAIN payments'
             /\ payments'[obj[h].id].status = "processing"
             /\ payments'[obj[h].id].chapa_checkout_url = result[h].checkout_url
             /\ payments'[obj[h].id].chapa_transaction_id = result[h].transaction_id
             /\ resp'.response.code = 201
             /\ resp'.response.data.checkout_url = result[h].checkout_url
             /\ resp'.response.data.reference = obj[h].chapa_reference]_vars

\* C9: an initiate whose gateway call failed ends with its payment stored as
\* failed, failure_reason being the gateway client's error text, and
\* returns 400.
C9_FailedInitiateFailed ==
    [][\A h \in Handlers :
          (/\ op[h] = "initiate_payment" /\ pc[h] = "save" /\ Steps(h)
           /\ ~result[h].success)
          => /\ obj[h].id \in DOMAIN payments'
             /\ payments'[obj[h].id].status = "failed"
             /\ payments'[obj[h].id].failure_reason = result[h].error
             /\ result[h].error # NULL
             /\ resp'.response.code = 400]_vars

\* C10: a verify or webhook whose call of transaction/verify fails changes
\* no payment row, enqueues nothing and returns 400.
C10_FailedVerifyLeavesState ==
    [][\A h \in Handlers :
          (/\ op[h] \in Reconciling /\ pc[h] = "gateway" /\ Steps(h)
           /\ call'.endpoint = "transaction/verify"
           /\ call'.answer \in VerifyFailures)
          => /\ payments' = payments
             /\ enqueued' = enqueued
             /\ pc'[h] = "idle"
             /\ resp'.op = op[h]
             /\ resp'.response.code = 400
             /\ ~resp'.response.success]_vars

\* a webhook has just returned 400 after a failed call of transaction/verify
C10_Witness ==
    /\ resp.op \in Reconciling
    /\ resp.response.code = 400
    /\ call.endpoint = "transaction/verify"
    /\ call.answer \in VerifyFailures

\* the step takes a request of endpoint name that its serializer accepts and
\* that carries a
RequestStarted(name, a) ==
    /\ started' = started + 1
    /\ \/ resp'.op = name /\ resp'.request = Request(TRUE, a)
       \/ \E h \in Handlers : pc[h] = "idle" /\ op'[h] = name /\ arg'[h] = a

\* C11: a status check whose call of transaction/verify fails (error
\* response, network failure, timeout) leaves the stored status of every
\* payment as it was.
C11_FailedRecheckKeepsStatus ==
    [][\A h \in Handlers :
          (/\ op[h] = "payment_status" /\ pc[h] = "recheck" /\ Steps(h)
           /\ call'.endpoint = "transaction/verify"
           /\ call'.answer \in VerifyFailures)
          => \A p \in DOMAIN payments :
                p \in DOMAIN payments' /\ payments'[p].status = payments[p].status]_vars

\* C12: a verify whose transaction id matches no payment returns 404, calls
\* no gateway and changes no payment.
C12_VerifyUnknownNotFound ==
    [][\A tx \in TxRefs :
          (RequestStarted("verify_payment", Some(tx)) /\ ByTransaction(payments, tx) = {})
          => /\ resp'.op = "verify_payment"
             /\ resp'.response.code = 404
             /\ call' = NoCall
             /\ payments' = payments]_vars

\* C13: a webhook whose tx_ref matches no payment returns "Payment not
\* found" (404) and ends there: no gateway call, no notification, no payment
\* changed.
C13_WebhookUnknownNotFound ==
    [][\A data \in Payloads :
          (/\ RequestStarted("payment_webhook", data)
           /\ data.tx_ref # NULL
           /\ ByTransaction(payments, data.tx_ref[1]) = {})
          => /\ resp'.op = "payment_webhook"
             /\ resp'.response.code = 404
             /\ resp'.response.error = Some("Payment not found")
             /\ call' = NoCall
             /\ enqueued' = enqueued
             /\ payments' = payments
             /\ pc' = pc]_vars

\* a webhook for an unknown tx_ref was answered while payments are stored
C13_Witness ==
    /\ resp.op = "payment_webhook"
    /\ resp.response.code = 404
    /\ resp.request.arg.tx_ref # NULL
    /\ payments # <<>>

\* C14: of two webhooks with the same tx_ref and different payload statuses
\* that loaded the same row, the one that gets the gateway's answer ends
\* with the instance and the notification the other would end with on that
\* answer.
C14_WebhookIgnoresPayloadStatus ==
    [][\A h \in Handlers, other \in Handlers :
          (/\ op[h] = "payment_webhook" /\ pc[h] = "gateway" /\ pc'[h] = "save"
           /\ op[other] = "payment_webhook" /\ pc[other] = "gateway"
           /\ arg[other].tx_ref = arg[h].tx_ref
           /\ arg[other].status # arg[h].status
           /\ obj[other] = obj[h])
          => \E paid \in GatewayAmounts :
                LET vr == ChapaVerify(call'.answer, paid) IN
                /\ obj'[h] = WebhookApply(obj[other], arg[other], vr, now)
                /\ IF TaskFor(vr) = NULL THEN enqueued' = enqueued
                   ELSE Delay(TaskFor(vr)[1], obj[other])]_vars

\* a webhook carrying status "success" holds a failure it has not saved yet
C14_Witness ==
    \E h \in Handlers :
        /\ op[h] = "payment_webhook" /\ pc[h] = "save"
        /\ arg[h].status = "success" /\ obj[h].status = "failed"
        /\ \E other \in Handlers :
              /\ op[other] = "payment_webhook" /\ pc[other] = "gateway"
              /\ arg[other].tx_ref = arg[h].tx_ref
              /\ arg[other].status = "failed"

FailureNotifications(p) == enqueued["send_payment_failure_notification"][p]

\* C15: a verify or webhook of a payment that is already failed and has its
\* failure notification enqueued, the gateway still reporting failed, keeps
\* the payment failed with a failure reason and enqueues nothing more.
C15_FailureNotifiedOnce ==
    [][\A h \in Handlers :
          (/\ op[h] \in Reconciling /\ pc[h] = "gateway" /\ Steps(h)
           /\ obj[h].status = "failed"
           /\ FailureNotifications(obj[h].id) >= 1
           /\ call'.endpoint = "transaction/verify" /\ call'.answer = "failed")
          => /\ enqueued' = enqueued
             /\ pc'[h] = "save"
                   => obj'[h].status = "failed" /\ obj'[h].failure_reason # NULL]_vars

Stale(r) == r.status = "pending" /\ now - r.created_at > StaleHours

\* C17: the sweep's update cancels exactly the pending payments created
\* strictly more than 24 hours before now, recording a failure reason, and
\* leaves every other payment as it is; a sweep that ends without an update
\* found no such payment and changes nothing.
C17_SweepCancelsExactlyStale ==
    [][\A h \in Handlers :
          /\ (op[h] = "cleanup_expired_payments" /\ pc[h] = "update" /\ Steps(h))
             => /\ DOMAIN payments' = DOMAIN payments
                /\ \A p \in DOMAIN payments :
                      payments'[p] =
                         IF Stale(payments[p])
                         THEN [payments[p] EXCEPT
                                  !.status = "cancelled",
                                  !.failure_reason = Some("Payment expired after 24 hours")]
                         ELSE payments[p]
          /\ (pc[h] = "idle" /\ Steps(h) /\ op'[h] = "cleanup_expired_payments")
             => payments' = payments /\ \E p \in DOMAIN payments : Stale(payments[p])
          /\ (pc[h] = "idle" /\ started' = started + 1
              /\ resp'.op = "cleanup_expired_payments")
             => payments' = payments /\ \A p \in DOMAIN payments : ~Stale(payments[p])]_vars

\* a sweep has returned after cancelling a payment
C17_Witness ==
    /\ resp.op = "cleanup_expired_payments"
    /\ resp.response.data.cleaned_up >= 1
    /\ \E p \in DOMAIN payments : payments[p].status = "cancelled"

\* C18: the count a sweep returns is the number of payments its update took
\* from pending to cancelled, also when payments changed between its count
\* and its update (no payment having been deleted).
C18_SweepCountIsTransitioned ==
    [][\A h \in Handlers :
          (/\ op[h] = "cleanup_expired_payments" /\ pc[h] = "update" /\ Steps(h)
           /\ Cardinality(DOMAIN payments) = nextId - 1)
          => resp'.response.data.cleaned_up =
                Cardinality({p \in DOMAIN payments :
                                /\ payments[p].status = "pending"
                                /\ payments'[p].status = "cancelled"})]_vars

\* the tasks declared with max_retries
Retried == {"send_payment_confirmation_email", "send_booking_reminder_email"}
\* worker h makes an attempt of a task that retries
Attempts(h) ==
    /\ op[h] \in Retried /\ pc[h] = "run"
    /\ pc'[h] # pc[h] \/ arg'[h] # arg[h]
\* the countdowns of the retries, in seconds
Backoff == <<1, 2, 4>>

\* C19 as stated: an attempt of a confirmation or reminder dispatch is the
\* first, second or third of its message.
C19_AtMostThreeAttempts ==
    [][\A h \in Handlers : Attempts(h) => arg[h].retries + 1 <= 3]_vars

\* C19, amended: a confirmation or reminder dispatch is attempted at most
\* four times (the first attempt and max_retries = 3 retries); the retries
\* are scheduled after 1, 2 and 4 seconds; the attempt after the third retry
\* ends the task; every attempt that ends the task returns success, skipped
\* or error; and every dispatch ends.
C19_RetriesBounded ==
    /\ [][\A h \in Handlers :
             Attempts(h)
             => /\ arg[h].retries + 1 <= max_retries + 1
                /\ result[h] = SubSeq(Backoff, 1, arg[h].retries)
                /\ pc'[h] = "run"
                      => /\ arg[h].retries < max_retries
                         /\ arg'[h].retries = arg[h].retries + 1
                         /\ result'[h] = SubSeq(Backoff, 1, arg[h].retries + 1)
                /\ pc'[h] = "idle"
                      => /\ resp'.op = op[h]
                         /\ resp'.response.data.status \in {"success", "skipped", "error"}
                /\ arg[h].retries = max_retries => pc'[h] = "idle"]_vars
    /\ \A h \in Handlers : (pc[h] = "run") ~> (pc[h] = "idle")

\* a dispatch has ended in error after its third retry
C19_Witness ==
    /\ resp.op \in Retried
    /\ resp.response.data.status = "error"
    /\ resp.request.arg.retries = max_retries

\* C20: a verify or webhook to which the gateway reports a status that has a
\* notification (success, failed, cancelled) goes on to save its payment,
\* whether the notification's delay() succeeds or raises: it does not end
\* with an error response before the save.
C20_EnqueueFailureKeepsTransition ==
    [][\A h \in Handlers :
          (/\ op[h] \in Reconciling /\ pc[h] = "gateway" /\ Steps(h)
           /\ call'.endpoint = "transaction/verify"
           /\ Lower(call'.answer) \in {"success", "failed", "cancelled"})
          => /\ pc'[h] = "save"
             /\ resp' = NoResp]_vars

\* worker h makes an attempt of the task it holds
Runs(h) == pc[h] = "run" /\ (pc'[h] # pc[h] \/ arg'[h] # arg[h])

\* C21: an attempt of a booking-reminder dispatch for a booking that has no
\* payment, or whose payment is not completed, sends no mail and ends the
\* task with the result "skipped"; an attempt for a booking whose payment is
\* completed calls send_mail.
C21_ReminderOnlyWhenCompleted ==
    [][\A h \in Handlers :
          (/\ op[h] = "send_booking_reminder_email" /\ Runs(h)
           /\ arg[h].id \in BookingIds)
          => IF \E p \in PaymentOfBooking(payments, arg[h].id) :
                   payments[p].status = "completed"
             THEN call'.endpoint = "send_mail"
             ELSE /\ call' = NoCall
                  /\ pc'[h] = "idle"
                  /\ resp'.op = "send_booking_reminder_email"
                  /\ resp'.response.data.status = "skipped"
                  /\ payments' = payments]_vars

\* a reminder was skipped for a booking whose payment is processing
C21_Witness ==
    /\ resp.op = "send_booking_reminder_email"
    /\ resp.response.data.status = "skipped"
    /\ \E p \in PaymentOfBooking(payments, resp.request.arg.id) :
          payments[p].status = "processing"

\* the local statuses the gateway client's status projection returns
Projected == {"completed", "pending", "failed", "cancelled"}

\* C22: the status projection a status check applies to the outcome of its
\* call of transaction/verify returns, for every outcome (a missing or
\* unrecognized data.status included), one of completed, pending, failed and
\* cancelled, and does not raise: success gives completed, pending pending,
\* failed failed, cancelled cancelled, any other gateway status pending.
C22_StatusProjectionTotal ==
    [][\A h \in Handlers :
          (/\ op[h] = "payment_status" /\ pc[h] = "recheck" /\ Steps(h)
           /\ call'.endpoint = "transaction/verify"
           /\ obj[h].id \in DOMAIN payments)
          => /\ resp'.response.code = 200
             /\ resp'.response.data.status \in Projected
             /\ call'.answer \in GatewayStatuses
                   => resp'.response.data.status =
                         LET s == Lower(call'.answer) IN
                         IF s = "success" THEN "completed"
                         ELSE IF s \in {"pending", "failed", "cancelled"} THEN s
                         ELSE "pending"]_vars

\* the four payment endpoints of urls.py
Endpoints ==
    {"initiate_payment", "verify_payment", "payment_status", "payment_webhook"}

\* C23: every response of initiate, verify, status and webhook, on success
\* and on every error path, has a boolean success flag and an error or a
\* message text.
C23_ResponsesCarryFlagAndText ==
    resp.op \in Endpoints
    => /\ resp.response.success \in BOOLEAN
       /\ resp.response.error # NULL \/ resp.response.message # NULL

\* the status changes of the state machine: <<from, to>>
Transitions ==
    {<<"pending", "processing">>, <<"pending", "failed">>,
     <<"processing", "failed">>, <<"processing", "completed">>,
     <<"pending", "cancelled">>}

\* C24: every change of the status of a stored payment is pending to
\* processing, pending or processing to failed, processing to completed, or
\* pending to cancelled.
C24_OnlyListedTransitions ==
    [][\A p \in DOMAIN payments \cap DOMAIN payments' :
          payments'[p].status # payments[p].status
          => <<payments[p].status, payments'[p].status>> \in Transitions]_vars

\* C25: a webhook that goes on to save after the gateway's answer holds the
\* status and paid_at, and has enqueued the notification, that a verify of
\* the same loaded payment would on that answer (success, failed,
\* cancelled, pending or an unrecognized status).
C25_WebhookSameAsVerify ==
    [][\A h \in Handlers :
          (op[h] = "payment_webhook" /\ pc[h] = "gateway" /\ pc'[h] = "save")
          => \E paid \in GatewayAmounts :
                LET vr == ChapaVerify(call'.answer, paid)
                    verified == VerifyApply(obj[h], vr, now) IN
                /\ obj'[h].status = verified.status
                /\ obj'[h].paid_at = verified.paid_at
                /\ IF TaskFor(vr) = NULL THEN enqueued' = enqueued
                   ELSE Delay(TaskFor(vr)[1], obj[h])]_vars

\* C26: in every state, a payment whose stored status is completed has had
\* a confirmation enqueued for it, whichever of verify, webhook and status
\* check completed it.
C26_CompletedHasConfirmation ==
    \A p \in DOMAIN payments :
        payments[p].status = "completed" => Confirmations(p) >= 1

\* C27: an attempt of a payment-failed dispatch in which send_mail raises,
\* retries being left, is followed by a retry as for the other message
\* kinds: the task does not end with an error result.
C27_FailureNotificationRetried ==
    [][\A h \in Handlers :
          (/\ op[h] = "send_payment_failure_notification" /\ Runs(h)
           /\ call' = SendMail(FALSE)
           /\ arg[h].retries < max_retries)
          => /\ pc'[h] = "run"
             /\ arg'[h].retries = arg[h].retries + 1]_vars

\* C30: when an initiate that has created a payment returns, whatever its
\* response code, the payment it created (if it is still stored) has status
\* processing or failed, not pending.
C30_InitiateLeavesNoPending ==
    [][\A h \in Handlers :
          (/\ op[h] = "initiate_payment" /\ pc[h] \in {"gateway", "save"}
           /\ pc'[h] = "idle"
           /\ obj[h].id \in DOMAIN payments)
          => payments'[obj[h].id].status \in {"processing", "failed"}]_vars

\* C29: when a worker makes an attempt of a payment-confirmed message that
\* a request handler enqueued, under any interleaving with that handler,
\* the payment is stored with status completed and paid_at set.
C29_ConfirmationAfterPersisted ==
    [][\A h \in Handlers :
          (op[h] = "send_payment_confirmation_email" /\ Runs(h))
          => /\ arg[h].id \in DOMAIN payments
             /\ payments[arg[h].id].status = "completed"
             /\ payments[arg[h].id].paid_at # NULL]_vars

\* the operations other than initiate: the endpoints that reconcile or read
\* a payment, the sweep and the notification tasks
Consumers ==
    (Endpoints \ {"initiate_payment"}) \cup {"cleanup_expired_payments"} \cup Tasks
\* the step is taken by a handler or worker running operation name
Acts(name) ==
    \/ resp'.op = name
    \/ \E h \in Handlers :
          \/ op[h] = name /\ (pc'[h] # pc[h] \/ arg'[h] # arg[h])
          \/ pc[h] = "idle" /\ op'[h] = name
\* the columns an operation other than initiate has no business writing
Fixed(r) ==
    [amount |-> r.amount, currency |-> r.currency,
     chapa_reference |-> r.chapa_reference,
     customer_email |-> r.customer_email, customer_phone |-> r.customer_phone,
     customer_name |-> r.customer_name]

\* C28: a payment is stored with a chapa_reference from its creation on, no
\* step changes the chapa_reference of a stored payment, and no step
\* of verify, webhook, status check, sweep or a notification task changes a
\* stored payment's amount, currency, chapa_reference or customer fields.
C28_ReferenceAndAmountFixed ==
    [][payments' # payments
       => /\ \A p \in DOMAIN payments' \ DOMAIN payments :
                payments'[p].chapa_reference = NewReference(p)
          /\ \A p \in DOMAIN payments \cap DOMAIN payments' :
                /\ payments'[p].chapa_reference = payments[p].chapa_reference
                /\ (\E name \in Consumers : Acts(name))
                      => Fixed(payments'[p]) = Fixed(payments[p])]_vars

\* a webhook has stored a failure and returned, and a worker holds the
\* failure notification of that payment
C28_Witness ==
    /\ resp.op = "payment_webhook" /\ resp.response.code = 200
    /\ \E p \in DOMAIN payments, h \in Handlers :
          /\ payments[p].status = "failed"
          /\ op[h] = "send_payment_failure_notification"
          /\ arg[h].id = p

====
